---- MODULE Spec2Model ----
(***************************************************************************)
(* Model of the data-migration scripts (src/grantees, src/proposals).      *)
(*                                                                         *)
(* The scripts are sequential Python programs.  The model keeps the Python *)
(* call stack (stack), the value or exception the last finished call       *)
(* handed to its caller (ret), and the HTTP requests that were sent and    *)
(* not yet answered (inflight).  A step is either a piece of code running  *)
(* up to its next call or blocking POST, or the platform answering the     *)
(* POST that is in flight.  The platform (status codes, connection errors) *)
(* is the environment: every answer is a nondeterministic choice.          *)
(*                                                                         *)
(* Platform contract assumed for answers: a 200 answer of a create         *)
(* endpoint carries a JSON object with a non-empty "id" and a "name".      *)
(***************************************************************************)
EXTENDS Integers, Sequences, FiniteSets, TLC

(* ------------------------------ bounds -------------------------------- *)
\* largest value of the retries argument in a direct call of the helper
MaxRetriesArg == 3
\* largest number of CSV rows
MaxRows == 2
MaxNonprofits == 2
MaxBatchSize == 2
MaxGrants == 2

(* ------------------------- program constants -------------------------- *)
\* retries=3 default of every _send_request_with_retry
DefaultRetries == 3

(* ------------------------------ values -------------------------------- *)
NoneV == [t |-> "None"]
StrV(s) == [t |-> "str", s |-> s]
Resp(status, body) == [t |-> "Response", status |-> status, body |-> body]
ConnectionError == [t |-> "ConnectionError"]

Names == {"A", "B"}
EmptyBody == [id |-> "", name |-> ""]
\* the JSON object of a 200 answer of a create endpoint
CreatedBody == [id |-> "np1", name |-> "G"]

\* what requests.post can produce: an answer with a status code, or an
\* exception of the requests library (connection error, timeout)
PostOutcomes ==
  {Resp(200, CreatedBody), Resp(204, EmptyBody), Resp(500, EmptyBody), ConnectionError}

\* the status code of an outcome, 0 for an exception
StatusOf(r) == IF r.t = "Response" THEN r.status ELSE 0

NoRet == [kind |-> "none"]
Return(v) == [kind |-> "return", val |-> v]
Raise(e) == [kind |-> "raise", exc |-> e]

Frame(cls, fn) == [cls |-> cls, fn |-> fn]
RETRY == "_send_request_with_retry"

VARIABLES
  script,      \* the entry point that was called: a frame
  dry_run,     \* self.dry_run
  arg,         \* the argument of the entry point, where it is not data/existing
  stack,       \* the call stack, innermost frame last
  ret,         \* what the last finished call handed to its caller
  attempt,     \* _send_request_with_retry: loop variable
  retries,     \* _send_request_with_retry: argument
  inflight,    \* requests sent and not yet answered
  call,        \* history: the logical POST (helper call or direct post) last begun
  sentLog,     \* history: the row of every request sent, in order
  self,        \* the result lists of the object
  appended,    \* history: <<list, row>> for every append to a result list
  data,        \* the CSV rows (the batch, mapped_data)
  i,           \* index of the row the loop is at
  existing,    \* the result of the lookup of existing platform records
  file,        \* the CSV file on disk
  log,         \* history: what was logged per row
  platform     \* the names of the grants the platform holds

inputs == <<script, dry_run, arg>>
control == <<stack, ret>>
http == <<attempt, retries, inflight, call, sentLog>>
results == <<self, appended>>
loop == <<data, i, existing>>
vars == <<script, dry_run, arg, stack, ret, attempt, retries, inflight, call, sentLog,
          self, appended, data, i, existing, file, log, platform>>

Top == stack[Len(stack)]
Pop == SubSeq(stack, 1, Len(stack) - 1)
Running(cls, fn) == stack # <<>> /\ Top = Frame(cls, fn)
Terminated == stack = <<>>

\* the object's result lists after __init__
NewSelf ==
  [successful_responses |-> <<>>, failed_responses |-> <<>>,
   success_responses |-> <<>>, update_success_responses |-> <<>>,
   update_failed_responses |-> <<>>,
   successful_requests |-> <<>>, failed_requests |-> <<>>]

NoCall ==
  [cls |-> "", endpoint |-> "", via |-> "", row |-> 0, limit |-> 0,
   sent |-> 0, answers |-> <<>>, done |-> FALSE, result |-> NoRet]
NoFile == [written |-> FALSE, fieldnames |-> <<>>, rows |-> <<>>]

(* ----------------------- _send_request_with_retry --------------------- *)
\* the status code the helper of a class treats as success
OkStatus(cls) == IF cls = "GranteeUpdater" THEN 204 ELSE 200

IsSuccess(cls, r) == r.t = "Response" /\ r.status = OkStatus(cls)

\* for attempt in range(retries)
RetryLoopContinuesOffByOne(a, r) == a <= r
RetryLoopContinues(a, r) == a < r

\* requests.post is synchronous: the caller is blocked while its request is in flight
BlockedNever(reqs) == FALSE
Blocked(reqs) == reqs # {}

\* a new logical POST in the history
NewCall(cls, endpoint, via, row, limit) ==
  [cls |-> cls, endpoint |-> endpoint, via |-> via, row |-> row, limit |-> limit,
   sent |-> 0, answers |-> <<>>, done |-> FALSE, result |-> NoRet]

\* a caller enters the helper
CallRetry(cls, endpoint, row, r) ==
  /\ stack' = Append(stack, Frame(cls, RETRY))
  /\ attempt' = 0
  /\ retries' = r
  /\ call' = NewCall(cls, endpoint, "retry", row, r)
  /\ ret' = NoRet
  /\ UNCHANGED <<inflight, sentLog>>

\* requests.post(url, headers=headers, json=data, timeout=30): the request leaves
Retry_Send ==
  /\ stack # <<>> /\ Top.fn = RETRY
  /\ ret.kind = "none" /\ ~Blocked(inflight)
  /\ RetryLoopContinues(attempt, retries)
  /\ inflight' = inflight \cup {[endpoint |-> call.endpoint, row |-> call.row,
                                 seq |-> Len(sentLog) + 1]}
  /\ sentLog' = Append(sentLog, call.row)
  /\ call' = [call EXCEPT !.sent = @ + 1]
  /\ UNCHANGED <<inputs, control, attempt, retries, results, loop, file, log, platform>>

\* the loop ends without an attempt left: return None
Retry_ReturnNone ==
  /\ stack # <<>> /\ Top.fn = RETRY
  /\ ret.kind = "none" /\ ~Blocked(inflight)
  /\ ~RetryLoopContinues(attempt, retries)
  /\ stack' = Pop
  /\ ret' = Return(NoneV)
  /\ call' = [call EXCEPT !.done = TRUE, !.result = Return(NoneV)]
  /\ UNCHANGED <<inputs, attempt, retries, inflight, sentLog, results, loop, file, log, platform>>

\* the answer (or the exception) of the request in flight arrives
Retry_Response ==
  /\ stack # <<>> /\ Top.fn = RETRY
  /\ inflight # {}
  /\ \E r \in PostOutcomes :
       LET c == [call EXCEPT !.answers = Append(@, StatusOf(r))] IN
       /\ inflight' = {}
       /\ IF IsSuccess(Top.cls, r)
            THEN \* return response
                 /\ stack' = Pop
                 /\ ret' = Return(r)
                 /\ call' = [c EXCEPT !.done = TRUE, !.result = Return(r)]
                 /\ UNCHANGED attempt
            ELSE IF attempt < retries - 1
              THEN \* time.sleep(delay), next attempt
                   /\ attempt' = attempt + 1
                   /\ call' = c
                   /\ UNCHANGED <<stack, ret>>
              ELSE \* raise
                   /\ stack' = Pop
                   /\ ret' = Raise("RequestException")
                   /\ call' = [c EXCEPT !.done = TRUE,
                                        !.result = Raise("RequestException")]
                   /\ UNCHANGED attempt
  /\ UNCHANGED <<inputs, retries, sentLog, results, loop, file, log, platform>>

(* ------------- GrantPayment._parse_date, _clean_amount ---------------- *)
\* Text read from a CSV cell is a sequence of one-character strings, so that
\* parsing is computed and not assumed.
Txt(chars) == [t |-> "txt", s |-> chars]

Digits == {"0", "1", "2", "3", "4", "5", "6", "7", "8", "9"}
DigitVal(c) ==
  CASE c = "0" -> 0 [] c = "1" -> 1 [] c = "2" -> 2 [] c = "3" -> 3 [] c = "4" -> 4
    [] c = "5" -> 5 [] c = "6" -> 6 [] c = "7" -> 7 [] c = "8" -> 8 [] c = "9" -> 9
DigitChar(n) == CHOOSE c \in Digits : DigitVal(c) = n

IsDigits(w) == \A k \in 1..Len(w) : w[k] \in Digits

RECURSIVE Num(_)
Num(w) == IF w = <<>> THEN 0 ELSE 10 * Num(SubSeq(w, 1, Len(w) - 1)) + DigitVal(w[Len(w)])

\* the pieces of w between the occurrences of sep
RECURSIVE Split(_, _)
Split(w, sep) ==
  IF \A k \in 1..Len(w) : w[k] # sep
    THEN <<w>>
    ELSE LET k == CHOOSE j \in 1..Len(w) : w[j] = sep /\ \A h \in 1..(j - 1) : w[h] # sep
         IN <<SubSeq(w, 1, k - 1)>> \o Split(SubSeq(w, k + 1, Len(w)), sep)

\* strptime's pattern of %m: 1[0-2]|0[1-9]|[1-9]
MatchMonth(w) ==
  /\ Len(w) \in {1, 2} /\ IsDigits(w)
  /\ Num(w) \in (IF Len(w) = 1 THEN 1..9 ELSE 1..12)

\* strptime's pattern of %d: 3[01]|[12]\d|0[1-9]|[1-9]| [1-9]
MatchDay(w) ==
  \/ Len(w) \in {1, 2} /\ IsDigits(w) /\ Num(w) \in (IF Len(w) = 1 THEN 1..9 ELSE 1..31)
  \/ Len(w) = 2 /\ w[1] = " " /\ w[2] \in Digits \ {"0"}

DayVal(w) == IF w[1] = " " THEN DigitVal(w[2]) ELSE Num(w)

\* strptime's pattern of %Y (\d\d\d\d) and of %y (\d\d)
MatchYear(w, fmt) == Len(w) = (IF fmt = "%Y" THEN 4 ELSE 2) /\ IsDigits(w)

\* %y: 69..99 are 1969..1999, 0..68 are 2000..2068
YearVal(w, fmt) ==
  IF fmt = "%Y" THEN Num(w) ELSE IF Num(w) <= 68 THEN 2000 + Num(w) ELSE 1900 + Num(w)

IsLeap(y) == (y % 4 = 0 /\ y % 100 # 0) \/ y % 400 = 0
DaysIn(m, y) ==
  IF m = 2 THEN (IF IsLeap(y) THEN 29 ELSE 28)
  ELSE IF m \in {4, 6, 9, 11} THEN 30 ELSE 31

\* n in decimal, zero-padded to width digits
RECURSIVE Pad(_, _)
Pad(n, width) ==
  IF width = 0 THEN <<>> ELSE Pad(n \div 10, width - 1) \o <<DigitChar(n % 10)>>

\* datetime.strptime(s, "%m/%d/" + fmt): the date, or ValueError
Strptime(s, fmt) ==
  LET p == Split(s, "/") IN
  IF /\ Len(p) = 3
     /\ MatchMonth(p[1]) /\ MatchDay(p[2]) /\ MatchYear(p[3], fmt)
     /\ YearVal(p[3], fmt) >= 1
     /\ DayVal(p[2]) <= DaysIn(Num(p[1]), YearVal(p[3], fmt))
    THEN [ok |-> TRUE, y |-> YearVal(p[3], fmt), m |-> Num(p[1]), d |-> DayVal(p[2])]
    ELSE [ok |-> FALSE, y |-> 0, m |-> 0, d |-> 0]

\* .strftime("%Y-%m-%d"), for the years 1000..9999
Strftime(dt) == Pad(dt.y, 4) \o <<"-">> \o Pad(dt.m, 2) \o <<"-">> \o Pad(dt.d, 2)

\* _parse_date(date_str): only ValueError is caught; strptime(None, fmt) raises TypeError
GP_parse_date(date_str) ==
  IF date_str.t = "None" THEN Raise("TypeError")
  ELSE IF Strptime(date_str.s, "%Y").ok THEN Return(Txt(Strftime(Strptime(date_str.s, "%Y"))))
  ELSE IF Strptime(date_str.s, "%y").ok THEN Return(Txt(Strftime(Strptime(date_str.s, "%y"))))
  ELSE Return(NoneV)

\* w without the occurrences of c: str.replace(c, "")
RECURSIVE Remove(_, _)
Remove(w, c) ==
  IF w = <<>> THEN <<>>
  ELSE (IF w[1] = c THEN <<>> ELSE <<w[1]>>) \o Remove(SubSeq(w, 2, Len(w)), c)

Unsigned(w) == IF w # <<>> /\ w[1] \in {"-", "+"} THEN SubSeq(w, 2, Len(w)) ELSE w

\* float(w) of Python for text over digits, sign, point and the words nan and inf
\* (lower case): the number, or ValueError
PyFloat(w) ==
  LET u == Unsigned(w)
      p == Split(u, ".")
      neg == w # <<>> /\ w[1] = "-"
  IN
  IF u \in {<<"n", "a", "n">>, <<"i", "n", "f">>}
    THEN [ok |-> TRUE, finite |-> FALSE, neg |-> neg, num |-> 0, frac |-> 0]
  ELSE IF /\ Len(p) \in {1, 2}
          /\ \A k \in 1..Len(p) : IsDigits(p[k])
          /\ \E k \in 1..Len(p) : p[k] # <<>>
    THEN [ok |-> TRUE, finite |-> TRUE, neg |-> neg,
          num |-> Num(p[1] \o (IF Len(p) = 2 THEN p[2] ELSE <<>>)),
          frac |-> IF Len(p) = 2 THEN Len(p[2]) ELSE 0]
  ELSE [ok |-> FALSE, finite |-> FALSE, neg |-> FALSE, num |-> 0, frac |-> 0]

\* _clean_amount(amount_str): only ValueError is caught; None.replace raises AttributeError
GP_clean_amount(amount_str) ==
  IF amount_str.t = "None" THEN Raise("AttributeError")
  ELSE LET f == PyFloat(Remove(amount_str.s, ",")) IN
       IF f.ok THEN Return([t |-> "float", finite |-> f.finite, neg |-> f.neg,
                            num |-> f.num, frac |-> f.frac])
       ELSE Return(NoneV)

(* ------------------------------ Grantee ------------------------------- *)
\* failed_responses.append({"message": ..., "org_name": ...}) of the except block
RecordFailedDropped(lst, msg, name) == lst
RecordFailed(lst, msg, name) == Append(lst, [message |-> msg, org_name |-> name])

\* "if response:" is Response.__bool__, true for a 200 answer, false for None
Truthy(v) == v.t = "Response" /\ v.status < 400

\* _get_nonprofits(): [] in a dry run; otherwise the helper is called with the
\* keyword json=, which it does not take: TypeError
Grantee_get_nonprofits(dry) == IF dry THEN Return({}) ELSE Raise("TypeError")

\* line 154: the rows that are logged as existing and skipped
GranteeSkipsRow(name, existing_temelio_grants) == name \notin existing_temelio_grants

\* _create_nonprofit returns v: to process_csv, which sets row["id"] and goes on
\* with the next row, or to the caller of a direct call
Grantee_create_Return(v) ==
  /\ stack' = Pop
  /\ IF Len(stack) > 1
       THEN /\ data' = [data EXCEPT ![i].id = IF v.t = "str" /\ v.s # "" THEN v.s
                                              ELSE "Failed"]
            /\ i' = i + 1
            /\ ret' = NoRet
       ELSE /\ ret' = Return(v)
            /\ UNCHANGED <<data, i>>
  /\ UNCHANGED existing

\* the body of _create_nonprofit up to the call of the helper
Grantee_create_Begin ==
  /\ Running("Grantee", "_create_nonprofit")
  /\ ret.kind = "none"
  /\ IF dry_run
       THEN \* logged "Dry run: Would create nonprofit"; return
            /\ Grantee_create_Return(NoneV)
            /\ UNCHANGED http
       ELSE /\ CallRetry("Grantee", "create_nonprofit", i, DefaultRetries)
            /\ UNCHANGED loop
  /\ UNCHANGED <<inputs, results, file, log, platform>>

\* the helper has returned or raised: the rest of the try block, or the except block
Grantee_create_Resume ==
  /\ Running("Grantee", "_create_nonprofit")
  /\ ret.kind # "none"
  /\ IF ret.kind = "return" /\ Truthy(ret.val)
       THEN /\ self' = [self EXCEPT !.successful_responses =
                          Append(@, [org_name |-> arg.legalName])]
            /\ appended' = appended \cup {<<"successful_responses", i>>}
            /\ Grantee_create_Return(StrV(ret.val.body.id))
       ELSE \* the helper raised, or returned None and response.status_code raised
            \* AttributeError inside the try: "except Exception" records the failure
            /\ self' = [self EXCEPT !.failed_responses =
                          RecordFailed(@, IF ret.kind = "raise" THEN ret.exc
                                          ELSE "AttributeError", arg.legalName)]
            /\ appended' = appended \cup {<<"failed_responses", i>>}
            /\ Grantee_create_Return(NoneV)
  /\ UNCHANGED <<inputs, http, file, log, platform>>

\* process_csv: _read_csv, _get_nonprofits, the id column
Grantee_process_Begin ==
  /\ Running("Grantee", "process_csv")
  /\ ret.kind = "none" /\ i = 0
  /\ LET g == Grantee_get_nonprofits(dry_run) IN
     IF g.kind = "raise"
       THEN \* nothing catches it: process_csv ends with the exception
            /\ stack' = <<>>
            /\ ret' = g
            /\ UNCHANGED loop
       ELSE /\ existing' = g.val
            /\ i' = 1
            /\ UNCHANGED <<control, data>>
  /\ UNCHANGED <<inputs, http, results, file, log, platform>>

\* process_csv: one pass of "for row in data" up to the call of _create_nonprofit.
\* The loop only runs in a dry run, where existing is [], so every row with its
\* fields is skipped and the call of _create_nonprofit is never reached.
Grantee_process_Row ==
  /\ Running("Grantee", "process_csv")
  /\ ret.kind = "none" /\ i \in 1..Len(data)
  /\ LET row == data[i] IN
     IF row.Name = "" \/ row.Lead = ""
       THEN \* missing fields
            /\ self' = [self EXCEPT !.failed_responses =
                          Append(@, [message |-> "Missing fields", row |-> row])]
            /\ appended' = appended \cup {<<"failed_responses", i>>}
            /\ data' = [data EXCEPT ![i].id = "Failed"]
            /\ i' = i + 1
            /\ UNCHANGED <<stack, arg, log>>
       ELSE IF GranteeSkipsRow(row.Name, existing)
         THEN \* "Non profit already exists in temelio..not creating one"
              /\ log' = Append(log, [row |-> i, msg |-> "already exists"])
              /\ i' = i + 1
              /\ UNCHANGED <<stack, arg, data, results>>
         ELSE /\ arg' = [legalName |-> row.Name, primaryContactName |-> row.Lead]
              /\ stack' = Append(stack, Frame("Grantee", "_create_nonprofit"))
              /\ UNCHANGED <<data, i, results, log>>
  /\ UNCHANGED <<script, dry_run, ret, http, existing, file, platform>>

\* process_csv: after the loop, _write_csv(data, fieldnames) and the summary
Grantee_process_Finish ==
  /\ Running("Grantee", "process_csv")
  /\ ret.kind = "none" /\ i > Len(data)
  /\ file' = [written |-> TRUE,
              fieldnames |-> IF \E k \in 1..Len(file.fieldnames) : file.fieldnames[k] = "id"
                               THEN file.fieldnames ELSE Append(file.fieldnames, "id"),
              rows |-> data]
  /\ stack' = Pop
  /\ ret' = Return(NoneV)
  /\ UNCHANGED <<inputs, http, results, loop, log, platform>>

(* -------------------------- ExtraOrganisation ------------------------- *)
\* line 144: if org_id not in tamelio_organisations
ShouldCreateInverted(org_id, tamelio_organisations) == org_id \in tamelio_organisations
ShouldCreate(org_id, tamelio_organisations) == org_id \notin tamelio_organisations

\* process_batch: one pass of "for row in batch" up to the call of _create_nonprofit
Extra_batch_Row ==
  /\ Running("ExtraOrganisation", "process_batch")
  /\ ret.kind = "none" /\ i \in 1..Len(data)
  /\ IF ShouldCreate(data[i].OrgId, existing)
       THEN /\ stack' = Append(stack, Frame("ExtraOrganisation", "_create_nonprofit"))
            /\ UNCHANGED <<i, log>>
       ELSE \* "Organization ... already exists. Skipping creation."
            /\ log' = Append(log, [row |-> i, msg |-> "already exists"])
            /\ i' = i + 1
            /\ UNCHANGED stack
  /\ UNCHANGED <<inputs, ret, http, results, data, existing, file, platform>>

\* _create_nonprofit up to the call of the helper; in a dry run it returns None,
\* and process_batch records the row as failed
Extra_create_Begin ==
  /\ Running("ExtraOrganisation", "_create_nonprofit")
  /\ ret.kind = "none"
  /\ IF dry_run
       THEN /\ stack' = Pop
            /\ self' = [self EXCEPT !.failed_responses = Append(@, data[i].Name)]
            /\ appended' = appended \cup {<<"failed_responses", i>>}
            /\ i' = i + 1
            /\ UNCHANGED <<ret, http>>
       ELSE /\ CallRetry("ExtraOrganisation", "create_nonprofit", i, DefaultRetries)
            /\ UNCHANGED <<results, i>>
  /\ UNCHANGED <<inputs, data, existing, file, log, platform>>

\* the helper has returned or raised.  Nothing catches its exception.  With the
\* id, process_batch calls _update_nonprofit, which posts without the helper.
Extra_create_Resume ==
  /\ Running("ExtraOrganisation", "_create_nonprofit")
  /\ ret.kind # "none"
  /\ IF ret.kind = "raise"
       THEN /\ stack' = <<>>
            /\ UNCHANGED <<ret, http>>
       ELSE IF Truthy(ret.val)
         THEN /\ stack' = Append(Pop, Frame("ExtraOrganisation", "_update_nonprofit"))
              /\ ret' = NoRet
              /\ inflight' = inflight \cup {[endpoint |-> "update_nonprofit", row |-> i,
                                             seq |-> Len(sentLog) + 1]}
              /\ sentLog' = Append(sentLog, i)
              /\ call' = [NewCall("ExtraOrganisation", "update_nonprofit", "direct", i, 1)
                            EXCEPT !.sent = 1]
              /\ UNCHANGED <<attempt, retries>>
         ELSE \* response is None: response.text raises AttributeError
              /\ stack' = <<>>
              /\ ret' = Raise("AttributeError")
              /\ UNCHANGED http
  /\ UNCHANGED <<inputs, results, loop, file, log, platform>>

\* the answer to the update request arrives
Extra_update_Response ==
  /\ Running("ExtraOrganisation", "_update_nonprofit")
  /\ inflight # {}
  /\ \E r \in PostOutcomes :
       LET c == [call EXCEPT !.answers = Append(@, StatusOf(r)), !.done = TRUE] IN
       /\ inflight' = {}
       /\ IF r.t # "Response"
            THEN \* requests.post raised; nothing catches it
                 /\ stack' = <<>>
                 /\ ret' = Raise("ConnectionError")
                 /\ call' = [c EXCEPT !.result = Raise("ConnectionError")]
                 /\ UNCHANGED <<results, i>>
            ELSE /\ stack' = Pop
                 /\ ret' = NoRet
                 /\ call' = [c EXCEPT !.result = Return(r)]
                 /\ i' = i + 1
                 /\ IF r.status = 204
                      THEN /\ self' = [self EXCEPT !.update_success_responses =
                                         Append(@, data[i].OrgId)]
                           /\ appended' = appended \cup {<<"update_success_responses", i>>}
                      ELSE /\ self' = [self EXCEPT !.update_failed_responses =
                                         Append(@, data[i].OrgId)]
                           /\ appended' = appended \cup {<<"update_failed_responses", i>>}
  /\ UNCHANGED <<inputs, attempt, retries, sentLog, data, existing, file, log, platform>>

\* process_batch: after the loop, return the four lists
Extra_batch_Finish ==
  /\ Running("ExtraOrganisation", "process_batch")
  /\ ret.kind = "none" /\ i \notin 1..Len(data)
  /\ stack' = Pop
  /\ ret' = Return([t |-> "tuple",
                    v |-> <<self.failed_responses, self.success_responses,
                            self.update_failed_responses, self.update_success_responses>>])
  /\ UNCHANGED <<inputs, http, results, loop, file, log, platform>>

(* ----------------------------- GrantPayment --------------------------- *)
\* _get_grants_name(): [] in a dry run; otherwise requests.get(url, headers,
\* json_payload=..., method="POST") passes method twice to requests.request: TypeError
GP_get_grants_name(dry) == IF dry THEN Return({}) ELSE Raise("TypeError")

ApprovedStages == {"Active grant", "Engagement completed"}

\* x or y of Python for CSV cells
PyOr(x, y) == IF x.t = "txt" /\ x.s # <<>> THEN x ELSE y

\* the exception lines 167..337 raise for a row, "" when they raise none
GP_row_exception(row) ==
  IF row.SupportType.t = "None" THEN "AttributeError"
  ELSE IF row.SupportType.s = "" THEN ""
  ELSE IF GP_parse_date(row.CloseDate).kind = "raise" THEN "TypeError"
  ELSE IF GP_parse_date(PyOr(row.Disbursement, row.Estimated)).kind = "raise"
    THEN "TypeError"
  ELSE IF row.Lead.t = "None" THEN "AttributeError"
  ELSE IF GP_clean_amount(row.Amount).kind = "raise" THEN "AttributeError"
  ELSE ""

\* a request builder that gives every grant a payment, whatever its stage
GP_json_requestAlwaysPaid(row) ==
  [name |-> row.Name,
   stage |-> row.Stage,
   grantPayments |->
     <<[amount |-> GP_clean_amount(row.Amount).val,
        dueDate |-> GP_parse_date(PyOr(row.Disbursement, row.Estimated)).val,
        status |-> IF row.Disbursement.t = "txt" /\ row.Disbursement.s # <<>>
                     THEN "SENT" ELSE "NOT_STARTED"]>>,
   awardedAmount |-> GP_clean_amount(row.Amount).val,
   awardedDate |-> GP_parse_date(row.CloseDate).val]

\* the json_request of a row, as far as it depends on the row
GP_json_request(row) ==
  [name |-> row.Name,
   stage |-> row.Stage,
   grantPayments |->
     IF row.Stage \in ApprovedStages
       THEN <<[amount |-> GP_clean_amount(row.Amount).val,
               dueDate |-> GP_parse_date(PyOr(row.Disbursement, row.Estimated)).val,
               status |-> IF row.Disbursement.t = "txt" /\ row.Disbursement.s # <<>>
                            THEN "SENT" ELSE "NOT_STARTED"]>>
       ELSE <<>>,
   awardedAmount |-> IF row.Stage \in ApprovedStages
                       THEN GP_clean_amount(row.Amount).val
                       ELSE [t |-> "int", n |-> 0],
   awardedDate |-> GP_parse_date(row.CloseDate).val]

\* generate_json_request up to the loop
GP_gen_Begin ==
  /\ Running("GrantPayment", "generate_json_request")
  /\ ret.kind = "none" /\ i = 0
  /\ IF dry_run
       THEN /\ stack' = Pop
            /\ ret' = Return([t |-> "dict"])
            /\ UNCHANGED i
       ELSE /\ i' = 1
            /\ UNCHANGED control
  /\ UNCHANGED <<inputs, http, results, data, existing, file, log, platform>>

\* one pass of "for data in mapped_data" up to the call of post_to_api.  The loop
\* only runs outside a dry run, where _get_grants_name raises at the first row.
GP_gen_Row ==
  /\ Running("GrantPayment", "generate_json_request")
  /\ ret.kind = "none" /\ i \in 1..Len(data)
  /\ LET g == GP_get_grants_name(dry_run)
         row == data[i]
     IN
     IF g.kind = "raise"
       THEN /\ stack' = <<>>
            /\ ret' = g
            /\ UNCHANGED <<i, arg, log>>
       ELSE IF row.Name \in g.val
         THEN \* "Grant already exists"
              /\ log' = Append(log, [row |-> i, msg |-> "already exists"])
              /\ i' = i + 1
              /\ UNCHANGED <<control, arg>>
         ELSE IF GP_row_exception(row) # ""
           THEN /\ stack' = <<>>
                /\ ret' = Raise(GP_row_exception(row))
                /\ UNCHANGED <<i, arg, log>>
           ELSE IF row.SupportType.s = ""
             THEN /\ i' = i + 1
                  /\ UNCHANGED <<control, arg, log>>
             ELSE /\ arg' = GP_json_request(row)
                  /\ stack' = Append(stack, Frame("GrantPayment", "post_to_api"))
                  /\ UNCHANGED <<ret, i, log>>
  /\ UNCHANGED <<script, dry_run, http, results, data, existing, file, platform>>

\* after the loop: the summary reads the locals successful_requests and
\* failed_requests, which only a returned post_to_api call has bound
GP_gen_Finish ==
  /\ Running("GrantPayment", "generate_json_request")
  /\ ret.kind = "none" /\ i > Len(data)
  /\ stack' = Pop
  /\ IF self.successful_requests = <<>>
       THEN /\ ret' = Raise("UnboundLocalError")
            /\ UNCHANGED log
       ELSE /\ ret' = Return(NoneV)
            /\ log' = Append(log, [row |-> 0, msg |-> "summary"])
  /\ UNCHANGED <<inputs, http, results, loop, file, platform>>

\* success_response_body is appended to successful_requests
RecordSuccessfulRequest(lst, name) == Append(lst, [name |-> name])

\* post_to_api up to the call of the helper
GP_post_Begin ==
  /\ Running("GrantPayment", "post_to_api")
  /\ ret.kind = "none"
  /\ IF dry_run
       THEN /\ stack' = Pop
            /\ ret' = Return([t |-> "list"])
            /\ UNCHANGED http
       ELSE CallRetry("GrantPayment", "create_grant", i, DefaultRetries)
  /\ UNCHANGED <<inputs, results, loop, file, log, platform>>

\* the helper has returned or raised.  Nothing catches its exception.
GP_post_Resume ==
  /\ Running("GrantPayment", "post_to_api")
  /\ ret.kind # "none"
  /\ IF ret.kind = "raise"
       THEN /\ stack' = <<>>
            /\ UNCHANGED <<ret, results, i>>
       ELSE IF Truthy(ret.val)
         THEN /\ self' = [self EXCEPT !.successful_requests =
                            RecordSuccessfulRequest(@, ret.val.body.name)]
              /\ appended' = appended \cup {<<"successful_requests", i>>}
              /\ stack' = Pop
              /\ IF Len(stack) > 1
                   THEN \* back in generate_json_request: next row
                        ret' = NoRet /\ i' = i + 1
                   ELSE ret' = Return([t |-> "tuple",
                                       v |-> <<self.failed_requests,
                                               self'.successful_requests>>])
                        /\ UNCHANGED i
         ELSE \* response is None: response.status_code raises AttributeError
              /\ stack' = <<>>
              /\ ret' = Raise("AttributeError")
              /\ UNCHANGED <<results, i>>
  /\ UNCHANGED <<inputs, http, data, existing, file, log, platform>>

\* a direct call _parse_date(date_str)
GP_parse_date_Call ==
  /\ Running("GrantPayment", "_parse_date")
  /\ stack' = Pop
  /\ ret' = GP_parse_date(arg)
  /\ UNCHANGED <<inputs, http, results, loop, file, log, platform>>

\* a direct call _clean_amount(amount_str)
GP_clean_amount_Call ==
  /\ Running("GrantPayment", "_clean_amount")
  /\ stack' = Pop
  /\ ret' = GP_clean_amount(arg)
  /\ UNCHANGED <<inputs, http, results, loop, file, log, platform>>

(* ------------------ GrantPayment.map_nonprofit_to_csv ------------------ *)
\* str(v) of a CSV value: a text is itself, None is the text "None"
PyStr(v) == IF v.t = "None" THEN "None" ELSE v.s

\* np.get("customFields", {}).get("Affinity ID-4jS8olxc") == str(org_id)
AffinityMatches(np, org_id) == np.affinity.t = "str" /\ np.affinity.s = PyStr(org_id)

\* next((np for np in nonprofit_data if ...), None)
MatchingNonprofit(nonprofit_data, org_id) ==
  LET idx == {k \in 1..Len(nonprofit_data) : AffinityMatches(nonprofit_data[k], org_id)}
  IN IF idx = {} THEN NoneV
     ELSE nonprofit_data[CHOOSE k \in idx : \A j \in idx : k <= j]

\* the list map_nonprofit_to_csv returns
GP_map_nonprofit_to_csv(dry, csv_data, nonprofit_data) ==
  IF dry THEN <<>>
  ELSE [k \in 1..Len(csv_data) |->
          LET record == csv_data[k]
              matching_nonprofit == MatchingNonprofit(nonprofit_data, record.OrgId)
          IN [OrgId |-> record.OrgId, Name |-> record.Name,
              nonprofitId |-> IF matching_nonprofit = NoneV THEN NoneV
                              ELSE StrV(matching_nonprofit.nonprofitId)]]

\* a direct call map_nonprofit_to_csv(csv_data, nonprofit_data): outside a dry run the
\* records of csv_data are changed in place and the same list is returned
GP_map_Call ==
  /\ Running("GrantPayment", "map_nonprofit_to_csv")
  /\ stack' = Pop
  /\ ret' = Return(GP_map_nonprofit_to_csv(dry_run, data, existing))
  /\ data' = IF dry_run THEN data ELSE GP_map_nonprofit_to_csv(dry_run, data, existing)
  /\ UNCHANGED <<inputs, http, results, i, existing, file, log, platform>>

(* -------------------- ExtraOrganisation.process_csv -------------------- *)
\* a call that passes `given` positional arguments to a method taking `params`
\* positional parameters besides self: too many raise TypeError before the body runs
CallPositional(params, given, result) ==
  IF given > params THEN Raise("TypeError") ELSE result

\* self._read_csv(file_path), where _read_csv(self) takes no argument
Extra_read_csv_Call == CallPositional(0, 1, Return(file.rows))

\* process_csv(batch_size=b): its first statement raises, so that neither the platform
\* lookup nor the loop over range(0, len(csv_data), batch_size) is reached
Extra_csv_Begin ==
  /\ Running("ExtraOrganisation", "process_csv")
  /\ ret.kind = "none"
  /\ Extra_read_csv_Call.kind = "raise"
  /\ stack' = <<>>
  /\ ret' = Extra_read_csv_Call
  /\ UNCHANGED <<inputs, http, results, loop, file, log, platform>>

(* ------------- test-update-grants.py and GrantUpdater ----------------- *)
TU == "test-update-grants"

\* PIPELINES_DATA and PIPELINES of the environment: one pipeline whose stages are a
\* dict from stage name to stage id
pipelines_data == [P |-> [stages |-> [S1 |-> "sid1"]]]
pipelines == [P |-> "pid1"]
ZeroUuid == "00000000-0000-0000-0000-000000000000"

\* d.get(key) of a dict with text keys
DictGet(d, key) == IF key \in DOMAIN d THEN StrV(d[key]) ELSE NoneV

get_stage_id_by_pipeline_and_name(pipeline_name, stage_name) ==
  IF pipeline_name \notin DOMAIN pipelines_data THEN StrV("Pipeline not found.")
  ELSE LET stages == pipelines_data[pipeline_name].stages
       IN IF stage_name \in DOMAIN stages THEN StrV(stages[stage_name])
          ELSE StrV("Stage not found.")

\* the grant_data records get_grants_name builds of the items of the response
GrantData(items) ==
  [k \in 1..Len(items) |->
     [grant_name |-> items[k].name, grant_id |-> items[k].id,
      non_profit_id |-> items[k].nonprofitId]]

\* the pair of "for api_response in api_data: for row in csv_data:" with number k
PairGrant(k, api_data, csv_data) == api_data[((k - 1) \div Len(csv_data)) + 1]
PairRow(k, csv_data) == csv_data[((k - 1) % Len(csv_data)) + 1]

\* update_data of a matching pair
UpdateData(api_response, row) ==
  [id |-> api_response.grant_id, name |-> api_response.grant_name,
   nonprofitId |-> api_response.non_profit_id,
   pipelineId |-> IF DictGet(pipelines, row.Pipeline) = StrV(ZeroUuid) THEN NoneV
                  ELSE DictGet(pipelines, row.Pipeline),
   StageId |-> get_stage_id_by_pipeline_and_name(row.Pipeline, row.Stage),
   stage |-> row.Stage]

\* process_csv(file_path): read the CSV, then get_grants_name() sends its one request
TU_process_Begin ==
  /\ Running(TU, "process_csv")
  /\ ret.kind = "none" /\ i = 0
  /\ ~Blocked(inflight)
  /\ data' = file.rows
  /\ stack' = Append(stack, Frame(TU, "get_grants_name"))
  /\ inflight' = inflight \cup {[endpoint |-> "get_grants", row |-> 0,
                                 seq |-> Len(sentLog) + 1]}
  /\ sentLog' = Append(sentLog, 0)
  /\ call' = [NewCall(TU, "get_grants", "direct", 0, 1) EXCEPT !.sent = 1]
  /\ UNCHANGED <<inputs, ret, attempt, retries, results, i, existing, file, log, platform>>

\* send_request gets its answer: the json of a 200, None otherwise, in which case
\* get_grants_name returns []; an exception of requests is not caught
TU_grants_Response ==
  /\ Running(TU, "get_grants_name")
  /\ inflight # {}
  /\ \E r \in PostOutcomes :
       LET c == [call EXCEPT !.answers = Append(@, StatusOf(r)), !.done = TRUE] IN
       /\ inflight' = {}
       /\ IF r.t # "Response"
            THEN /\ stack' = <<>>
                 /\ ret' = Raise("ConnectionError")
                 /\ call' = [c EXCEPT !.result = Raise("ConnectionError")]
                 /\ UNCHANGED <<i, existing>>
            ELSE /\ stack' = Pop
                 /\ ret' = NoRet
                 /\ call' = [c EXCEPT !.result = Return(r)]
                 /\ existing' = IF r.status = 200 THEN GrantData(platform) ELSE <<>>
                 /\ i' = 1
  /\ UNCHANGED <<inputs, attempt, retries, sentLog, results, data, file, log, platform>>

\* one pass of the inner loop: a pair with equal names posts update_data, without
\* the retry helper
TU_process_Pair ==
  /\ Running(TU, "process_csv")
  /\ ret.kind = "none" /\ i \in 1..(Len(existing) * Len(data))
  /\ ~Blocked(inflight)
  /\ LET api_response == PairGrant(i, existing, data)
         row == PairRow(i, data)
     IN IF row.Name = api_response.grant_name
          THEN /\ arg' = UpdateData(api_response, row)
               /\ stack' = Append(stack, Frame(TU, "update_custom_fields"))
               /\ inflight' = inflight \cup {[endpoint |-> "update_grant", row |-> i,
                                              seq |-> Len(sentLog) + 1]}
               /\ sentLog' = Append(sentLog, i)
               /\ call' = [NewCall(TU, "update_grant", "direct", i, 1) EXCEPT !.sent = 1]
               /\ UNCHANGED i
          ELSE /\ i' = i + 1
               /\ UNCHANGED <<arg, stack, inflight, sentLog, call>>
  /\ UNCHANGED <<script, dry_run, ret, attempt, retries, results, data, existing, file,
                 log, platform>>

\* update_custom_fields gets its answer and appends to one of the module's two lists
TU_update_Response ==
  /\ Running(TU, "update_custom_fields")
  /\ inflight # {}
  /\ \E r \in PostOutcomes :
       LET c == [call EXCEPT !.answers = Append(@, StatusOf(r)), !.done = TRUE] IN
       /\ inflight' = {}
       /\ IF r.t # "Response"
            THEN /\ stack' = <<>>
                 /\ ret' = Raise("ConnectionError")
                 /\ call' = [c EXCEPT !.result = Raise("ConnectionError")]
                 /\ UNCHANGED <<results, i>>
            ELSE /\ stack' = Pop
                 /\ ret' = NoRet
                 /\ call' = [c EXCEPT !.result = Return(r)]
                 /\ i' = i + 1
                 /\ IF r.status = 200
                      THEN /\ self' = [self EXCEPT !.successful_requests =
                                         Append(@, [grant_name |-> arg.name])]
                           /\ appended' = appended \cup {<<"successful_requests", i>>}
                      ELSE /\ self' = [self EXCEPT !.failed_requests =
                                         Append(@, [grant_name |-> arg.name])]
                           /\ appended' = appended \cup {<<"failed_requests", i>>}
  /\ UNCHANGED <<inputs, attempt, retries, sentLog, data, existing, file, log, platform>>

\* after the loops the summary reads successful_requests and failed_requests, which
\* the assignment in the loop makes locals of process_csv: no matching pair leaves
\* them unbound
TU_process_Finish ==
  /\ Running(TU, "process_csv")
  /\ ret.kind = "none" /\ i > Len(existing) * Len(data)
  /\ stack' = Pop
  /\ IF self.successful_requests = <<>> /\ self.failed_requests = <<>>
       THEN /\ ret' = Raise("UnboundLocalError")
            /\ UNCHANGED log
       ELSE /\ ret' = Return(NoneV)
            /\ log' = Append(log, [row |-> 0, msg |-> "summary"])
  /\ UNCHANGED <<inputs, http, results, loop, file, platform>>

\* self._read_csv(self.file_path), where _read_csv(self) takes no argument
GU_read_csv_Call == CallPositional(0, 1, Return(file.rows))

\* GrantUpdater.process_csv(): its first statement raises, in a dry run too, so that
\* neither _get_grants_name nor the loops nor the summary is reached
GU_process_Begin ==
  /\ Running("GrantUpdater", "process_csv")
  /\ ret.kind = "none"
  /\ GU_read_csv_Call.kind = "raise"
  /\ stack' = <<>>
  /\ ret' = GU_read_csv_Call
  /\ UNCHANGED <<inputs, http, results, loop, file, log, platform>>

(* ----------------------------- entry points --------------------------- *)
Blank ==
  /\ ret = NoRet /\ attempt = 0 /\ retries = 0 /\ inflight = {} /\ call = NoCall
  /\ sentLog = <<>> /\ self = NewSelf /\ appended = {} /\ log = <<>>

NoLoop == data = <<>> /\ i = 0 /\ existing = {} /\ file = NoFile /\ platform = {}

\* the sequences over S of length at most n
SeqsUpTo(S, n) == UNION {[1..k -> S] : k \in 0..n}

RetryClasses == {"Grantee", "ExtraOrganisation", "GranteeUpdater", "GrantPayment",
                 "GrantUpdater"}

\* a direct call _send_request_with_retry(url, headers, data, retries=r)
InitRetry ==
  /\ \E cls \in RetryClasses : script = Frame(cls, RETRY)
  /\ dry_run = FALSE /\ arg = NoneV
  /\ stack = <<script>>
  /\ ret = NoRet /\ attempt = 0 /\ inflight = {} /\ sentLog = <<>>
  /\ retries \in 0..MaxRetriesArg
  /\ call = NewCall(script.cls, "url", "retry", 0, retries)
  /\ self = NewSelf /\ appended = {} /\ log = <<>>
  /\ NoLoop

\* a direct call Grantee._create_nonprofit(nonprofit_data)
InitGranteeCreate ==
  /\ script = Frame("Grantee", "_create_nonprofit")
  /\ dry_run \in BOOLEAN
  /\ arg \in [legalName : Names, primaryContactName : {"L"}]
  /\ stack = <<script>>
  /\ Blank /\ NoLoop

GranteeRows == [Name : Names \cup {""}, Lead : {"L", ""}, id : {""}]

\* Grantee(file_path, dry_run).process_csv() on a CSV file with or without an id column
InitGranteeProcess ==
  /\ script = Frame("Grantee", "process_csv")
  /\ dry_run \in BOOLEAN
  /\ arg = NoneV
  /\ stack = <<script>>
  /\ Blank
  /\ data \in SeqsUpTo(GranteeRows, MaxRows)
  /\ \E f \in {<<"Name", "LIF Primary Lead Name">>, <<"Name", "LIF Primary Lead Name", "id">>} :
       file = [written |-> FALSE, fieldnames |-> f, rows |-> data]
  /\ i = 0 /\ existing = {} /\ platform = {}

OrgIds == {"o1", "o2"}
ExtraRows == [OrgId : OrgIds, Name : Names]

\* ExtraOrganisation(file_path, dry_run).process_batch(batch, tamelio_organisations)
InitExtraBatch ==
  /\ script = Frame("ExtraOrganisation", "process_batch")
  /\ dry_run \in BOOLEAN
  /\ arg = NoneV
  /\ stack = <<script>>
  /\ Blank
  /\ data \in SeqsUpTo(ExtraRows, MaxRows)
  /\ existing \in SUBSET OrgIds
  /\ i = 1 /\ file = NoFile /\ platform = {}

Date1 == Txt(<<"0", "1", "/", "3", "1", "/", "2", "0", "2", "5">>)
Date2 == Txt(<<"2", "/", "9", "/", "2", "4">>)
Amount1 == Txt(<<"1", ",", "5", "0", "0", ".", "5">>)

GrantRows ==
  {[Name |-> n, SupportType |-> st, CloseDate |-> Date1, Disbursement |-> Txt(<<>>),
    Estimated |-> Date2, Amount |-> Amount1, Stage |-> sg,
    Lead |-> StrV("L")] : n \in Names, st \in {StrV("Grant"), StrV("")},
                          sg \in {"Active grant", "Engagement completed", "Prospect"}}

\* GrantPayment(file_path, dry_run).generate_json_request(mapped_data), the platform
\* holding the grants named in platform
InitGrantGenerate ==
  /\ script = Frame("GrantPayment", "generate_json_request")
  /\ dry_run \in BOOLEAN
  /\ arg = NoneV
  /\ stack = <<script>>
  /\ Blank
  /\ data \in SeqsUpTo(GrantRows, MaxRows)
  /\ platform \in SUBSET Names
  /\ i = 0 /\ existing = {} /\ file = NoFile

\* a direct call GrantPayment.post_to_api(json_request, name)
InitGrantPost ==
  /\ script = Frame("GrantPayment", "post_to_api")
  /\ dry_run \in BOOLEAN
  /\ \E row \in GrantRows :
       /\ row.SupportType.s # "" /\ GP_row_exception(row) = ""
       /\ arg = GP_json_request(row)
  /\ stack = <<script>>
  /\ Blank /\ NoLoop

DateInputs ==
  {NoneV, Txt(<<>>), Date1, Date2,
   Txt(<<"2", "/", "2", "9", "/", "2", "0", "2", "4">>),
   Txt(<<"2", "/", "2", "9", "/", "2", "0", "2", "5">>),
   Txt(<<"1", "3", "/", "0", "1", "/", "2", "0", "2", "5">>),
   Txt(<<"1", "2", "/", "3", "1", "/", "9", "9">>),
   Txt(<<"2", "0", "2", "5", "-", "0", "1", "-", "3", "1">>),
   Txt(<<"1", "/", "2", "/", "2", "0", "2">>),
   Txt(<<"0", "/", "1", "/", "2", "5">>),
   Txt(<<"n", "/", "a">>)}

AmountInputs ==
  {NoneV, Txt(<<>>), Amount1,
   Txt(<<"2", "5", "0", "0", "0">>),
   Txt(<<"1", ",", "0", ",", "0">>),
   Txt(<<"-", "5", ".">>),
   Txt(<<"$", "5">>),
   Txt(<<",">>),
   Txt(<<".">>),
   Txt(<<"1", ".", "2", ".", "3">>),
   Txt(<<"n", "/", "a">>)}

\* direct calls of the two parsers on what a CSV row lookup can yield
InitParse ==
  /\ \/ script = Frame("GrantPayment", "_parse_date") /\ arg \in DateInputs
     \/ script = Frame("GrantPayment", "_clean_amount") /\ arg \in AmountInputs
  /\ dry_run = FALSE
  /\ stack = <<script>>
  /\ Blank /\ NoLoop

MapRecords == [OrgId : {NoneV, StrV("o1"), StrV("o2")}, Name : {StrV("A")}]
PlatformNonprofits == [affinity : {NoneV, StrV("o1"), StrV("None")}, nonprofitId : {"n1", "n2"}]

\* a direct call GrantPayment(file_path, dry_run).map_nonprofit_to_csv(csv_data,
\* nonprofit_data); arg keeps the records as they were passed
InitGrantMap ==
  /\ script = Frame("GrantPayment", "map_nonprofit_to_csv")
  /\ dry_run \in BOOLEAN
  /\ stack = <<script>>
  /\ Blank
  /\ data \in SeqsUpTo(MapRecords, MaxRows)
  /\ arg = data
  /\ existing \in SeqsUpTo(PlatformNonprofits, MaxNonprofits)
  /\ i = 0 /\ file = NoFile /\ platform = {}

\* ExtraOrganisation(file_path, dry_run).process_csv(batch_size=b) on a CSV file
InitExtraCsv ==
  /\ script = Frame("ExtraOrganisation", "process_csv")
  /\ dry_run \in BOOLEAN
  /\ arg \in [batch_size : 1..MaxBatchSize]
  /\ stack = <<script>>
  /\ Blank
  /\ \E rows \in SeqsUpTo(ExtraRows, MaxRows) :
       file = [written |-> FALSE, fieldnames |-> <<"Organization Id", "Name">>,
               rows |-> rows]
  /\ data = <<>> /\ i = 0 /\ existing = {} /\ platform = {}

UpdateRows == [Name : Names, Pipeline : {"P"}, Stage : {"S1", "S2"}]
PlatformGrants == [name : Names, id : {"g1", "g2"}, nonprofitId : {"n1"}]

\* process_csv(file_path) of test-update-grants.py and
\* GrantUpdater(file_path, dry_run).process_csv(), on a CSV file and a platform that
\* holds the grants of platform
InitGrantUpdate ==
  /\ \/ script = Frame(TU, "process_csv") /\ dry_run = FALSE
     \/ script = Frame("GrantUpdater", "process_csv") /\ dry_run \in BOOLEAN
  /\ arg = NoneV
  /\ stack = <<script>>
  /\ Blank
  /\ \E rows \in SeqsUpTo(UpdateRows, MaxRows) :
       file = [written |-> FALSE, fieldnames |-> <<"Name", "Pipeline", "Stage">>,
               rows |-> rows]
  /\ platform \in SeqsUpTo(PlatformGrants, MaxGrants)
  /\ data = <<>> /\ i = 0 /\ existing = <<>>

Init ==
  \/ InitRetry
  \/ InitGranteeCreate
  \/ InitGranteeProcess
  \/ InitExtraBatch
  \/ InitGrantGenerate
  \/ InitGrantPost
  \/ InitParse
  \/ InitGrantMap
  \/ InitExtraCsv
  \/ InitGrantUpdate

Next ==
  \/ Retry_Send
  \/ Retry_ReturnNone
  \/ Retry_Response
  \/ Grantee_create_Begin
  \/ Grantee_create_Resume
  \/ Grantee_process_Begin
  \/ Grantee_process_Row
  \/ Grantee_process_Finish
  \/ Extra_batch_Row
  \/ Extra_create_Begin
  \/ Extra_create_Resume
  \/ Extra_update_Response
  \/ Extra_batch_Finish
  \/ GP_gen_Begin
  \/ GP_gen_Row
  \/ GP_gen_Finish
  \/ GP_post_Begin
  \/ GP_post_Resume
  \/ GP_parse_date_Call
  \/ GP_clean_amount_Call
  \/ GP_map_Call
  \/ Extra_csv_Begin
  \/ TU_process_Begin
  \/ TU_grants_Response
  \/ TU_process_Pair
  \/ TU_update_Response
  \/ TU_process_Finish
  \/ GU_process_Begin

Spec == Init /\ [][Next]_vars

(* ------------------------------- claims ------------------------------- *)
Entry(cls, fn) == script = Frame(cls, fn)

\* the success status of the helper, as the claims state it
ClaimSuccessStatus(cls) == IF cls = "GranteeUpdater" THEN 204 ELSE 200

\* the success status of an endpoint: 204 for the update of a nonprofit
EndpointSuccessStatus(endpoint) == IF endpoint = "update_nonprofit" THEN 204 ELSE 200

\* the requests sent for row r, as positions of sentLog
RequestsFor(r) == {k \in 1..Len(sentLog) : sentLog[k] = r}

ResultLists == {"successful_responses", "failed_responses", "success_responses",
                "update_success_responses", "update_failed_responses",
                "successful_requests", "failed_requests"}

\* C1: a call of _send_request_with_retry with retries=r (3 when a method of the
\* scripts calls it) sends at most r requests, and the first answer with the
\* success status (200; 204 in GranteeUpdater) is the last one: no request follows
\* it and the call returns that answer.
C1_RetrySendsAtMostRetries ==
  call.via = "retry" =>
    /\ call.sent <= call.limit
    /\ script.fn # RETRY => call.limit = 3
    /\ \A k \in 1..Len(call.answers) :
         call.answers[k] = ClaimSuccessStatus(call.cls) =>
           /\ k = Len(call.answers)
           /\ call.sent = k
           /\ inflight = {}
           /\ call.done
           /\ call.result.kind = "return"
           /\ call.result.val.t = "Response"
           /\ call.result.val.status = call.answers[k]

\* C1 witness: a direct call with retries=3 that returned the answer of its second
\* attempt, after a first attempt that failed
C1_Witness ==
  /\ script.fn = RETRY /\ call.limit = 3 /\ Terminated
  /\ call.sent = 2 /\ Len(call.answers) = 2
  /\ call.answers[1] # ClaimSuccessStatus(call.cls)
  /\ call.answers[2] = ClaimSuccessStatus(call.cls)
  /\ ret.kind = "return" /\ ret.val.t = "Response"

\* C2: every POST that creates or updates a platform record is retried: a request
\* whose last attempt failed was sent through the retrying helper and attempted
\* as often as the retry limit allows.
C2_EveryPostIsRetried ==
  ( /\ call.endpoint \in {"create_nonprofit", "update_nonprofit", "create_grant"}
    /\ call.done
    /\ call.answers # <<>>
    /\ call.answers[Len(call.answers)] # EndpointSuccessStatus(call.endpoint) )
  => (call.via = "retry" /\ call.sent = DefaultRetries)

\* C3: a call of Grantee._create_nonprofit outside a dry run appends exactly one
\* entry to exactly one of successful_responses and failed_responses, to
\* successful_responses exactly when an attempt of the create request was
\* answered 200, and it returns: it never ends with an exception.
C3_CreateRecordsExactlyOnce ==
  (Entry("Grantee", "_create_nonprofit") /\ ~dry_run) =>
    LET ok == Len(self.successful_responses)
        ko == Len(self.failed_responses)
    IN
    /\ ok + ko <= 1
    /\ Terminated =>
         /\ ret.kind = "return"
         /\ ok + ko = 1
         /\ Cardinality(appended) = 1
         /\ ok = 1 <=> \E k \in 1..Len(call.answers) : call.answers[k] = 200
         /\ \A l \in ResultLists \ {"successful_responses", "failed_responses"} :
              self[l] = <<>>

\* C3 witness: the call has ended after three failed attempts, the failure recorded
C3_Witness ==
  /\ Entry("Grantee", "_create_nonprofit") /\ ~dry_run /\ Terminated
  /\ call.sent = 3 /\ Len(call.answers) = 3
  /\ \A k \in 1..3 : call.answers[k] # 200
  /\ Len(self.failed_responses) = 1 /\ self.successful_responses = <<>>
  /\ ret = Return(NoneV)

\* C4: a call of GrantPayment.post_to_api outside a dry run appends exactly one
\* entry to exactly one of successful_requests and failed_requests and returns
\* the two lists; when every attempt fails, the name of the grant is in
\* failed_requests.
C4_PostRecordsExactlyOnce ==
  (Entry("GrantPayment", "post_to_api") /\ ~dry_run /\ Terminated) =>
    /\ ret.kind = "return"
    /\ Len(self.successful_requests) + Len(self.failed_requests) = 1
    /\ (\A k \in 1..Len(call.answers) : call.answers[k] # 200) =>
         \E k \in 1..Len(self.failed_requests) : self.failed_requests[k].name = arg.name

\* C5: in process_batch, process_csv and generate_json_request at most one
\* request is in flight, it is the request sent last, and the requests are sent
\* in the order of the rows: all requests of a row before any of a later row.
C5_OneRequestAtATime ==
  script.fn \in {"process_batch", "process_csv", "generate_json_request"} =>
    /\ Cardinality(inflight) <= 1
    /\ \A q \in inflight : q.seq = Len(sentLog) /\ q.row = sentLog[Len(sentLog)]
    /\ \A j, k \in 1..Len(sentLog) : j <= k => sentLog[j] <= sentLog[k]

\* C5 witness: process_batch has sent a retried create request and the update
\* request of row 1, and the first request of row 2 is in flight
C5_Witness ==
  /\ Entry("ExtraOrganisation", "process_batch")
  /\ Len(sentLog) = 4
  /\ sentLog[1] = 1 /\ sentLog[2] = 1 /\ sentLog[3] = 1 /\ sentLog[4] = 2
  /\ self.update_success_responses # <<>>
  /\ \E q \in inflight : q.row = 2 /\ q.endpoint = "create_nonprofit"

\* C6: process_batch sends no request for a row whose Organization Id is in the
\* list of existing organisation ids, and no append to a result list is made for
\* such a row (every entry of the lists comes from an append that is accounted to
\* a row).
C6_ExistingRowsUntouched ==
  Entry("ExtraOrganisation", "process_batch") =>
    /\ \A r \in 1..Len(data) :
         data[r].OrgId \in existing =>
           /\ RequestsFor(r) = {}
           /\ \A q \in inflight : q.row # r
           /\ \A l \in ResultLists : <<l, r>> \notin appended
    /\ Len(self.failed_responses) + Len(self.success_responses)
         + Len(self.update_failed_responses) + Len(self.update_success_responses)
       = Cardinality(appended)

\* C6 witness: process_batch has returned after skipping row 1, which exists, and
\* creating and updating row 2, which does not
C6_Witness ==
  /\ Entry("ExtraOrganisation", "process_batch") /\ ~dry_run /\ Terminated
  /\ Len(data) = 2
  /\ data[1].OrgId \in existing /\ data[2].OrgId \notin existing
  /\ ret.kind = "return"
  /\ RequestsFor(2) # {}
  /\ <<"update_success_responses", 2>> \in appended

\* C7: Grantee.process_csv sends a create request for a row only if the row's
\* organisation is not among the existing nonprofits of the lookup, and the rows
\* it logs as existing and skips are the rows whose organisation exists.
C7_CreateOnlyIfNotExisting ==
  Entry("Grantee", "process_csv") =>
    /\ \A k \in 1..Len(sentLog) : data[sentLog[k]].Name \notin existing
    /\ \A k \in 1..Len(log) :
         log[k].msg = "already exists" => data[log[k].row].Name \in existing
    /\ \A r \in 1..Len(data) :
         (r < i /\ data[r].Name \in existing /\ data[r].Lead # "") =>
           /\ \E k \in 1..Len(log) : log[k] = [row |-> r, msg |-> "already exists"]
           /\ RequestsFor(r) = {}

\* C8: generate_json_request, when it has ended outside a dry run, has sent no
\* create request for a row whose Name is among the grant names of the platform,
\* and one create request (with its retries) for each other row with a
\* non-empty Support type.
C8_OneCreatePerNewGrant ==
  (Entry("GrantPayment", "generate_json_request") /\ ~dry_run /\ Terminated) =>
    \A r \in 1..Len(data) :
      IF data[r].Name \in platform
        THEN RequestsFor(r) = {}
        ELSE (data[r].SupportType.t = "str" /\ data[r].SupportType.s # "") =>
               (RequestsFor(r) # {} /\ Cardinality(RequestsFor(r)) <= DefaultRetries)

\* C9: after Grantee.process_csv outside a dry run the CSV file is rewritten with
\* all rows in their order and with the id column, and every row a create
\* request was attempted for carries the id the platform returned if the
\* creation succeeded and "Failed" otherwise.
C9_FileRewrittenWithIds ==
  (Entry("Grantee", "process_csv") /\ ~dry_run /\ Terminated) =>
    /\ ret.kind = "return"
    /\ file.written
    /\ \E k \in 1..Len(file.fieldnames) : file.fieldnames[k] = "id"
    /\ file.rows = data
    /\ \A r \in 1..Len(data) :
         RequestsFor(r) # {} =>
           file.rows[r].id = (IF <<"successful_responses", r>> \in appended
                                THEN CreatedBody.id ELSE "Failed")

\* a date in the form MM/DD/YYYY or MM/DD/YY, as the claim states it
ClaimValidDate(v) ==
  /\ v.t = "txt"
  /\ LET p == Split(v.s, "/") IN
     /\ Len(p) = 3
     /\ \A k \in 1..3 : p[k] # <<>> /\ IsDigits(p[k])
     /\ Len(p[1]) <= 2 /\ Len(p[2]) <= 2 /\ Len(p[3]) \in {2, 4}
     /\ Num(p[1]) \in 1..12
     /\ Num(p[2]) \in 1..DaysIn(Num(p[1]), YearVal(p[3], IF Len(p[3]) = 4 THEN "%Y" ELSE "%y"))

\* an amount: an optional sign, then digits, with commas among them and an
\* optional decimal point, and at least one digit
ClaimValidAmount(v) ==
  /\ v.t = "txt"
  /\ LET u == Unsigned(v.s) IN
     /\ \E k \in 1..Len(u) : u[k] \in Digits
     /\ \A k \in 1..Len(u) : u[k] \in Digits \cup {",", "."}
     /\ Cardinality({k \in 1..Len(u) : u[k] = "."}) <= 1

\* C10: _parse_date and _clean_amount return None, and do not raise, for every
\* value of a CSV row lookup that is not a valid date or a valid amount, the
\* empty string and the missing value None included.
C10_InvalidValuesGiveNone ==
  /\ (Entry("GrantPayment", "_parse_date") /\ Terminated /\ ~ClaimValidDate(arg))
       => ret = Return(NoneV)
  /\ (Entry("GrantPayment", "_clean_amount") /\ Terminated /\ ~ClaimValidAmount(arg))
       => ret = Return(NoneV)

\* what claim C11 calls a nonprofit whose Affinity ID equals the Organization Id:
\* both are texts and the same text
ClaimAffinityEquals(np, org_id) ==
  np.affinity.t = "str" /\ org_id.t = "str" /\ np.affinity.s = org_id.s

ClaimNonprofitId(nonprofit_data, org_id) ==
  LET idx == {k \in 1..Len(nonprofit_data) : ClaimAffinityEquals(nonprofit_data[k], org_id)}
  IN IF idx = {} THEN NoneV
     ELSE StrV(nonprofit_data[CHOOSE k \in idx : \A j \in idx : k <= j].nonprofitId)

\* C11: outside a dry run map_nonprofit_to_csv returns the records it was given, in
\* the same order, each with nonprofitId set to the nonprofit id of the first platform
\* nonprofit whose Affinity ID equals the record's Organization Id, or to None when no
\* platform nonprofit matches
C11_MapSetsFirstMatchingNonprofit ==
  (Entry("GrantPayment", "map_nonprofit_to_csv") /\ ~dry_run /\ Terminated) =>
    /\ ret.kind = "return"
    /\ Len(ret.val) = Len(arg)
    /\ \A k \in 1..Len(arg) :
         /\ ret.val[k].OrgId = arg[k].OrgId
         /\ ret.val[k].Name = arg[k].Name
         /\ ret.val[k].nonprofitId = ClaimNonprofitId(existing, arg[k].OrgId)

\* the first rows of the batches of n rows taken b at a time
ClaimBatchStarts(n, b) == {k \in 1..n : (k - 1) % b = 0}

\* the first rows of the batches process_csv announced ("Processing batch ...")
BatchStarts == {log[k].row : k \in {j \in 1..Len(log) : log[j].msg = "Processing batch"}}

\* C12: process_csv(batch_size=b) processes the n rows of the CSV in ceil(n/b)
\* consecutive batches of at most b rows, and every row is passed to batch processing
\* exactly once, in CSV order
C12_BatchesCoverRowsInOrder ==
  (Entry("ExtraOrganisation", "process_csv") /\ Terminated) =>
    LET n == Len(file.rows)
        b == arg.batch_size
    IN /\ ret.kind = "return"
       /\ BatchStarts = ClaimBatchStarts(n, b)
       /\ Cardinality(BatchStarts) = (n + b - 1) \div b
       /\ Len(SelectSeq(log, LAMBDA e : e.msg = "Processing batch")) = Cardinality(BatchStarts)

\* the rows of the batch whose nonprofit was created: the update request of
\* process_batch is sent for these rows only
CreatedRows ==
  {r \in 1..Len(data) :
     \/ <<"update_success_responses", r>> \in appended
     \/ <<"update_failed_responses", r>> \in appended
     \/ (call.endpoint = "update_nonprofit" /\ call.row = r)}

\* C13: after process_batch has returned, success_responses holds an entry for every
\* row whose nonprofit was successfully created
C13_CreatedRowsInSuccessResponses ==
  (Entry("ExtraOrganisation", "process_batch") /\ Terminated /\ ret.kind = "return") =>
    /\ \A r \in CreatedRows : <<"success_responses", r>> \in appended
    /\ Len(self.success_responses) >= Cardinality(CreatedRows)

\* C14: process_batch processes every row: when the create request of a row has
\* failed on all its retries, the name of the row is recorded in failed_responses
\* and the rows after it are processed, so that the batch ends normally
C14_FailedCreateRecordedAndBatchContinues ==
  (/\ Entry("ExtraOrganisation", "process_batch") /\ Terminated
   /\ call.endpoint = "create_nonprofit" /\ call.done
   /\ \A k \in 1..Len(call.answers) : call.answers[k] # 200) =>
    /\ ret.kind = "return"
    /\ i > Len(data)
    /\ <<"failed_responses", call.row>> \in appended
    /\ \E k \in 1..Len(self.failed_responses) :
         self.failed_responses[k] = data[call.row].Name

\* the states in which arg is a grant create request as generate_json_request builds
\* it: the argument it passes to post_to_api
HoldsJsonRequest ==
  /\ script.cls = "GrantPayment"
  /\ script.fn \in {"post_to_api", "generate_json_request"}
  /\ arg # NoneV

ClaimGrants == IF script.cls = "GrantUpdater" THEN GrantData(platform) ELSE existing

\* the pairs of platform grant and CSV row with equal names, numbered in loop order
MatchingPairs ==
  {k \in 1..(Len(ClaimGrants) * Len(file.rows)) :
     PairRow(k, file.rows).Name = PairGrant(k, ClaimGrants, file.rows).grant_name}

\* C16: process_csv of GrantUpdater and of test-update-grants sends exactly one update
\* request for each pair of platform grant and CSV row with equal names and none for
\* any other pair; each update carries the id and the nonprofit id of the platform
\* grant and the stage of the matching row
C16_OneUpdatePerMatchingPair ==
  (script.fn = "process_csv" /\ script.cls \in {TU, "GrantUpdater"}) =>
    /\ Terminated =>
         /\ \A p \in MatchingPairs :
              Cardinality({k \in 1..Len(sentLog) : sentLog[k] = p}) = 1
         /\ \A k \in 1..Len(sentLog) : sentLog[k] > 0 => sentLog[k] \in MatchingPairs
    /\ call.endpoint = "update_grant" =>
         /\ arg.id = PairGrant(call.row, ClaimGrants, file.rows).grant_id
         /\ arg.nonprofitId = PairGrant(call.row, ClaimGrants, file.rows).non_profit_id
         /\ arg.stage = PairRow(call.row, file.rows).Stage

\* C17: GrantUpdater.process_csv, process_csv of test-update-grants and
\* GrantPayment.generate_json_request end normally and log their summary for every CSV
\* and every state of the platform, also when no row has led to a request (a run that a
\* failure of the network has ended is left aside)
C17_TerminatesWithSummary ==
  (/\ \/ script.fn = "process_csv" /\ script.cls \in {TU, "GrantUpdater"}
      \/ Entry("GrantPayment", "generate_json_request")
   /\ ~dry_run /\ Terminated
   /\ ~(ret.kind = "raise" /\ ret.exc \in {"ConnectionError", "RequestException"})) =>
    /\ ret.kind = "return"
    /\ \E k \in 1..Len(log) : log[k].msg = "summary"

====
